---- MODULE Spec2Model ----
(***************************************************************************)
(* Model of the client-side PDF page-rendering and caching pipeline of the *)
(* epstein-files-browser: the LRUCache class (lib/cache.ts), the prefetch  *)
(* scheduler (prefetchPdf and its prefetchingSet), the render pipeline     *)
(* (loadPdf in lib/pdf-utils.ts), the load effect and the prefetch effect  *)
(* of the viewers (FileModal, FilePage), the prev/next navigation of       *)
(* FileBrowser over the filtered view, the files list cache (lib/cache.ts) *)
(* and the preview cache of ProgressiveImage in localStorage.              *)
(*                                                                         *)
(* JavaScript runs these on one event loop: code between two awaits is one *)
(* atomic step, so every action below is the code from one suspension      *)
(* point to the next.  Consecutive awaits with no access to shared state   *)
(* between them (import + getDocument, getPage + render) are one           *)
(* suspension point.  A state change of a component, the render it causes  *)
(* and the effects of that render (cleanup, then body) are one step.       *)
(***************************************************************************)
EXTENDS Integers, Sequences, FiniteSets, TLC

\* ---------------------------------------------------------------- bounds
NumKeys == 3
NumValues == 2
MaxCapacity == 2
NumDocs == 2
MaxPages == 3
NumTasks == 2
MaxView == 3
MaxBatch == 2
MaxSrc == 503

LruKeys == 1..NumKeys
LruValues == 1..NumValues
Docs == 1..NumDocs
TaskIds == 1..NumTasks

\* --------------------------------------------------- program constants
PDF_CACHE_MAX_ENTRIES == 20
MAX_CACHED == 500

VARIABLES
  lru,            \* LRUCache.cache of one instance: Map entries, insertion order
  maxSize,        \* LRUCache.maxSize of that instance
  touchOrder,     \* history: distinct keys by last touch (set, or get hit), oldest first
  lastOp          \* history: the last operation applied to the instance

VARIABLES
  pdfPagesCache,  \* the pdfPagesCache LRUCache instance (Map entries, insertion order)
  prefetchingSet, \* the scheduler's set of keys with a prefetch in flight
  tasks,          \* the async calls in progress or finished: prefetchPdf, loadPages, loadPdf
  openKey,        \* the viewer's file.key (0: viewer closed)
  numPages,       \* pdf.numPages of each source document
  manifest,       \* manifest[key].pages of each document (0: no entry)
  lastPrefetch    \* history: the last prefetchPdf call, when it returned at once,
                  \* and where its key was in the cache

VARIABLES
  pages,          \* FileModal state: the page images displayed
  loading,        \* FileModal state: the loading flag
  error           \* FileModal state: the error message ("null": none)

VARIABLES
  openFile,       \* FileBrowser: the "file" query state (0: null)
  filteredFiles,  \* FileBrowser: the keys of the filtered and sorted view, in order
  navHistory      \* history: the last two prev/next actions, oldest first

VARIABLES
  filesCache,     \* lib/cache.ts: the files list cache (files, cursor, hasMore)
  previewCache    \* localStorage["img-previews"]: the entries, in key order

VARIABLES
  timers,         \* the prefetch effect's timeouts not yet fired, by due time
  viewer          \* which viewer is mounted: "modal", "page" or "pageV1"

lruVars == <<lru, maxSize, touchOrder, lastOp>>

storeVars == <<filesCache, previewCache>>

schedVars == <<timers, viewer>>

displayVars == <<pages, loading, error>>

navVars == <<openFile, filteredFiles, navHistory>>

renderVars == <<pdfPagesCache, prefetchingSet, tasks, openKey, numPages, manifest,
                lastPrefetch, pages, loading, error>>

vars == <<lru, maxSize, touchOrder, lastOp,
          pdfPagesCache, prefetchingSet, tasks, openKey, numPages, manifest,
          lastPrefetch, pages, loading, error,
          openFile, filteredFiles, navHistory,
          filesCache, previewCache, timers, viewer>>

\* ------------------------------------------------------- JavaScript Map
\* A Map is the sequence of its entries in insertion order.
MapKeys(c) == {c[i].key : i \in 1..Len(c)}

MapHas(c, k) == \E i \in 1..Len(c) : c[i].key = k

MapIndex(c, k) == CHOOSE i \in 1..Len(c) : c[i].key = k

MapGet(c, k) == c[MapIndex(c, k)].value

MapDelete(c, k) == SelectSeq(c, LAMBDA e : e.key # k)

\* Map.set keeps the position of a key that is present and appends a new one.
MapSet(c, k, v) ==
  IF MapHas(c, k)
    THEN [i \in 1..Len(c) |-> IF c[i].key = k THEN [key |-> k, value |-> v] ELSE c[i]]
    ELSE Append(c, [key |-> k, value |-> v])

\* ------------------------------------------------------------- LRUCache
\* get: the value is defined exactly when the key is present.
LRUHit(c, k) == MapHas(c, k)

LRUGetValue(c, k) == MapGet(c, k)

\* get that returns the value without re-inserting the entry
LRUGet_NoTouch(c, k) == c

\* get whose delete is not followed by the re-insert
LRUGet_Drop(c, k) == IF LRUHit(c, k) THEN MapDelete(c, k) ELSE c

\* get without the test of value !== undefined: a miss inserts the key
LRUGet_InsertOnMiss(c, k) ==
  MapSet(MapDelete(c, k), k, IF MapHas(c, k) THEN MapGet(c, k) ELSE 0)

\* the cache after get(k): a hit is deleted and re-inserted at the end.
LRUGet(c, k) ==
  IF LRUHit(c, k) THEN MapSet(MapDelete(c, k), k, MapGet(c, k)) ELSE c

\* eviction loop testing size > maxSize
RECURSIVE LRUEvict_OffByOne(_, _)
LRUEvict_OffByOne(c, n) ==
  IF Len(c) > n /\ Len(c) > 0 THEN LRUEvict_OffByOne(Tail(c), n) ELSE c

\* the eviction loop of set: while (size >= maxSize) delete the first key.
RECURSIVE LRUEvict(_, _)
LRUEvict(c, n) ==
  IF Len(c) >= n /\ Len(c) > 0 THEN LRUEvict(Tail(c), n) ELSE c

\* set that runs the eviction loop before deleting the existing key
LRUSet_EvictFirst(c, n, k, v) ==
  LET c2 == LRUEvict(c, n)
  IN MapSet(MapDelete(c2, k), k, v)

\* set: delete an existing key, evict while full, insert at the end.
LRUSet(c, n, k, v) ==
  LET c1 == IF MapHas(c, k) THEN MapDelete(c, k) ELSE c
      c2 == LRUEvict(c1, n)
  IN MapSet(c2, k, v)

LRUHasKey(c, k) == MapHas(c, k)

LRUDelete(c, k) == MapDelete(c, k)

LRUClear(c) == << >>

LRUSize(c) == Len(c)

\* ------------------------------------------------------ history helpers
Touch(order, k) == Append(SelectSeq(order, LAMBDA x : x # k), k)

\* the key of c that was touched longest ago (0: c is empty)
LeastRecent(order, c) ==
  IF Len(c) = 0 THEN 0
  ELSE order[CHOOSE i \in 1..Len(order) :
               /\ MapHas(c, order[i])
               /\ \A j \in 1..(i - 1) : ~MapHas(c, order[j])]

NoOp == [op |-> "none", key |-> 0, wasPresent |-> FALSE, sizeBefore |-> 0,
         lra |-> 0, removed |-> {}, result |-> 0]

\* result: the value get returns (0: undefined)
OpRecord(name, k, before, after) ==
  [op |-> name, key |-> k, wasPresent |-> MapHas(before, k),
   sizeBefore |-> Len(before),
   lra |-> LeastRecent(touchOrder, before),
   removed |-> MapKeys(before) \ MapKeys(after),
   result |-> IF name = "get" /\ LRUHit(before, k) THEN LRUGetValue(before, k) ELSE 0]

\* ------------------------------------------- one LRUCache instance: actions
\* the arguments of the last onPageRendered call of a task (none yet)
NoCallback == [len |-> 0, pageNum |-> 0, totalPages |-> 0]

\* useState defaults of FileModal: pages [], loading true, error null
DisplayDefault ==
  /\ pages = << >>
  /\ loading = TRUE
  /\ error = "null"

\* no file open, no files listed
NavIdle ==
  /\ openFile = 0
  /\ filteredFiles = << >>
  /\ navHistory = << >>

\* the module-level filesCache, and no "img-previews" item in localStorage
StoreIdle ==
  /\ filesCache = [files |-> << >>, cursor |-> "null", hasMore |-> TRUE]
  /\ previewCache = << >>

\* no timeout pending; the viewer is FileModal
SchedIdle ==
  /\ timers = << >>
  /\ viewer = "modal"

IdleTask ==
  [kind |-> "none", key |-> 0, pc |-> "idle", pageNum |-> 0,
   renderedPages |-> << >>, cancelled |-> FALSE, callbacks |-> 0,
   wrote |-> FALSE, cancelMidPage |-> FALSE, lateCallbacks |-> 0,
   unmounted |-> FALSE, cbArgs |-> NoCallback, rejected |-> FALSE,
   imageError |-> FALSE]

NoPrefetch == [key |-> 0, index |-> 0]

RenderIdle ==
  /\ pdfPagesCache = << >>
  /\ prefetchingSet = {}
  /\ tasks = [s \in TaskIds |-> IdleTask]
  /\ openKey = 0
  /\ numPages = [k \in Docs |-> 0]
  /\ manifest = [k \in Docs |-> 0]
  /\ lastPrefetch = NoPrefetch
  /\ DisplayDefault
  /\ StoreIdle
  /\ SchedIdle

InitLRU ==
  /\ lru = << >>
  /\ maxSize \in 1..MaxCapacity
  /\ touchOrder = << >>
  /\ lastOp = NoOp
  /\ RenderIdle
  /\ NavIdle

LruGet(k) ==
  /\ UNCHANGED renderVars
  /\ UNCHANGED navVars
  /\ UNCHANGED storeVars
  /\ UNCHANGED schedVars
  /\ lru' = LRUGet(lru, k)
  /\ touchOrder' = IF LRUHit(lru, k) THEN Touch(touchOrder, k) ELSE touchOrder
  /\ lastOp' = OpRecord("get", k, lru, lru')
  /\ UNCHANGED maxSize

LruSet(k, v) ==
  /\ UNCHANGED renderVars
  /\ UNCHANGED navVars
  /\ UNCHANGED storeVars
  /\ UNCHANGED schedVars
  /\ lru' = LRUSet(lru, maxSize, k, v)
  /\ touchOrder' = Touch(touchOrder, k)
  /\ lastOp' = OpRecord("set", k, lru, lru')
  /\ UNCHANGED maxSize

LruHas(k) ==
  /\ UNCHANGED renderVars
  /\ UNCHANGED navVars
  /\ UNCHANGED storeVars
  /\ UNCHANGED schedVars
  /\ lastOp' = OpRecord("has", k, lru, lru)
  /\ UNCHANGED <<lru, maxSize, touchOrder>>

LruDelete(k) ==
  /\ UNCHANGED renderVars
  /\ UNCHANGED navVars
  /\ UNCHANGED storeVars
  /\ UNCHANGED schedVars
  /\ lru' = LRUDelete(lru, k)
  /\ lastOp' = OpRecord("delete", k, lru, lru')
  /\ UNCHANGED <<maxSize, touchOrder>>

LruClear ==
  /\ UNCHANGED renderVars
  /\ UNCHANGED navVars
  /\ UNCHANGED storeVars
  /\ UNCHANGED schedVars
  /\ lru' = LRUClear(lru)
  /\ lastOp' = OpRecord("clear", 0, lru, lru')
  /\ UNCHANGED <<maxSize, touchOrder>>

NextLRU ==
  \/ \E k \in LruKeys : LruGet(k)
  \/ \E k \in LruKeys, v \in LruValues : LruSet(k, v)
  \/ \E k \in LruKeys : LruHas(k)
  \/ \E k \in LruKeys : LruDelete(k)
  \/ LruClear

SpecLRU == InitLRU /\ [][NextLRU]_vars

NextSetGet ==
  \/ \E k \in LruKeys : LruGet(k)
  \/ \E k \in LruKeys, v \in LruValues : LruSet(k, v)

SpecSetGet == InitLRU /\ [][NextSetGet]_vars

\* ------------------------------------------------------------ page images
\* getPageImageUrl: the URL is built from the key and the zero-padded page
\* number, so it identifies (key, page).
getPageImageUrl(pdfKey, pageNum) == [key |-> pdfKey, page |-> pageNum, src |-> "url"]

loadPagesFromImages(filePath, pageCount) ==
  [i \in 1..pageCount |-> getPageImageUrl(filePath, i)]

\* page.render + canvas.toDataURL of page pageNum of the source document.
RenderPage(filePath, pageNum) == [key |-> filePath, page |-> pageNum, src |-> "raster"]

getPdfPages(c, k) == LRUGet(c, k)

setPdfPages(c, k, pageList) == LRUSet(c, PDF_CACHE_MAX_ENTRIES, k, pageList)

\* ------------------------------------------------------------ async calls
Running(t) == t.pc \in {"images", "open", "page"}

FreeSlots == {s \in TaskIds : ~Running(tasks[s])}

FirstFree == CHOOSE s \in FreeSlots : \A r \in FreeSlots : s <= r

\* cancelled = true (effect cleanup) or signal.aborted (AbortController.abort)
Cancel(t) ==
  IF Running(t) /\ ~t.cancelled
    THEN [t EXCEPT !.cancelled = TRUE, !.cancelMidPage = (t.pc = "page")]
    ELSE t

NewTask(kind, k, pc) == [IdleTask EXCEPT !.kind = kind, !.key = k, !.pc = pc]

\* The catalogue: one document of up to MaxPages pages, which has a manifest
\* entry or not when it has MaxPages pages, the others of one page and
\* without an entry; a manifest entry states the document's page count.
Init ==
  /\ pdfPagesCache = << >>
  /\ prefetchingSet = {}
  /\ tasks = [s \in TaskIds |-> IdleTask]
  /\ openKey = 0
  /\ numPages \in [Docs -> 0..MaxPages]
  /\ manifest \in [Docs -> 0..MaxPages]
  /\ \A k \in Docs : manifest[k] \in {0, numPages[k]}
  /\ \A k \in Docs : manifest[k] > 0 => numPages[k] = MaxPages
  /\ \A k \in Docs : k > 1 => (numPages[k] = 1 /\ manifest[k] = 0)
  /\ lastPrefetch = NoPrefetch
  /\ DisplayDefault
  /\ StoreIdle
  /\ SchedIdle
  /\ NavIdle
  /\ lru = << >>
  /\ maxSize = 1
  /\ touchOrder = << >>
  /\ lastOp = NoOp

\* ------------------------------------------------------------ prefetchPdf
\* prefetchPdf(filePath) up to its first await: return at once when the key
\* is cached or in flight, else add it to prefetchingSet and start.
prefetchPdf(k) ==
  /\ IF LRUHit(pdfPagesCache, k) \/ k \in prefetchingSet
       THEN /\ lastPrefetch' = [key |-> k, index |->
                   IF LRUHit(pdfPagesCache, k) THEN MapIndex(pdfPagesCache, k) ELSE 0]
            /\ UNCHANGED <<prefetchingSet, tasks>>
       ELSE /\ FreeSlots # {}
            /\ prefetchingSet' = prefetchingSet \cup {k}
            /\ tasks' = [tasks EXCEPT ![FirstFree] =
                 NewTask("prefetch", k, IF manifest[k] > 0 THEN "images" ELSE "open")]
            /\ lastPrefetch' = NoPrefetch
  /\ pdfPagesCache' = getPdfPages(pdfPagesCache, k)

\* prefetchPdf that tests the cache only, not prefetchingSet
PrefetchPdf_NoDedup(k) ==
  /\ IF LRUHit(pdfPagesCache, k)
       THEN /\ lastPrefetch' = [key |-> k, index |-> MapIndex(pdfPagesCache, k)]
            /\ UNCHANGED <<prefetchingSet, tasks>>
       ELSE /\ FreeSlots # {}
            /\ prefetchingSet' = prefetchingSet \cup {k}
            /\ tasks' = [tasks EXCEPT ![FirstFree] =
                 NewTask("prefetch", k, IF manifest[k] > 0 THEN "images" ELSE "open")]
            /\ lastPrefetch' = IF k \in prefetchingSet THEN [key |-> k, index |-> 0]
                                                        ELSE NoPrefetch
  /\ pdfPagesCache' = getPdfPages(pdfPagesCache, k)
  /\ UNCHANGED <<openKey, numPages, manifest>>
  /\ UNCHANGED lruVars
  /\ UNCHANGED navVars
  /\ UNCHANGED storeVars
  /\ UNCHANGED schedVars
  /\ UNCHANGED displayVars

\* a call of prefetchPdf from a hover or focus handler
PrefetchPdf(k) ==
  /\ prefetchPdf(k)
  /\ UNCHANGED <<openKey, numPages, manifest>>
  /\ UNCHANGED lruVars
  /\ UNCHANGED navVars
  /\ UNCHANGED storeVars
  /\ UNCHANGED schedVars
  /\ UNCHANGED displayVars

\* an img.onerror that rejects: the catch block, no write
PrefetchImagesLoaded_RejectOnError(s, imageError) ==
  LET t == tasks[s]
      imageUrls == loadPagesFromImages(t.key, manifest[t.key])
  IN /\ t.kind = "prefetch" /\ t.pc = "images"
     /\ pdfPagesCache' = IF imageError THEN pdfPagesCache
                         ELSE setPdfPages(pdfPagesCache, t.key, imageUrls)
     /\ prefetchingSet' = prefetchingSet \ {t.key}
     /\ tasks' = [tasks EXCEPT ![s] =
          IF imageError THEN [t EXCEPT !.pc = "failed", !.imageError = TRUE]
          ELSE [t EXCEPT !.pc = "done", !.renderedPages = imageUrls, !.wrote = TRUE]]
     /\ UNCHANGED <<openKey, numPages, manifest, lastPrefetch>>
     /\ UNCHANGED lruVars
     /\ UNCHANGED navVars
     /\ UNCHANGED storeVars
     /\ UNCHANGED schedVars
     /\ UNCHANGED displayVars

\* every Image settled, by onload or, when imageError, one of them by
\* onerror, which resolves too: store the urls, return.
PrefetchImagesLoaded(s, imageError) ==
  LET t == tasks[s]
      imageUrls == loadPagesFromImages(t.key, manifest[t.key])
  IN /\ t.kind = "prefetch" /\ t.pc = "images"
     /\ pdfPagesCache' = setPdfPages(pdfPagesCache, t.key, imageUrls)
     /\ prefetchingSet' = prefetchingSet \ {t.key}
     /\ tasks' = [tasks EXCEPT ![s] =
          [t EXCEPT !.pc = "done", !.renderedPages = imageUrls, !.wrote = TRUE,
                    !.imageError = imageError]]
     /\ UNCHANGED <<openKey, numPages, manifest, lastPrefetch>>
     /\ UNCHANGED lruVars
     /\ UNCHANGED navVars
     /\ UNCHANGED storeVars
     /\ UNCHANGED schedVars
     /\ UNCHANGED displayVars

\* the end of the try block without the test of renderedPages.length
PrefetchFinish_NoLengthTest(s, t, rp) ==
  /\ pdfPagesCache' = setPdfPages(pdfPagesCache, t.key, rp)
  /\ prefetchingSet' = prefetchingSet \ {t.key}
  /\ tasks' = [tasks EXCEPT ![s] =
       [t EXCEPT !.pc = "done", !.pageNum = 0, !.renderedPages = rp, !.wrote = TRUE]]

\* the end of prefetchPdf's try block and its finally.
PrefetchFinish(s, t, rp) ==
  /\ pdfPagesCache' = IF Len(rp) > 0 THEN setPdfPages(pdfPagesCache, t.key, rp)
                                      ELSE pdfPagesCache
  /\ prefetchingSet' = prefetchingSet \ {t.key}
  /\ tasks' = [tasks EXCEPT ![s] =
       [t EXCEPT !.pc = "done", !.pageNum = 0, !.renderedPages = rp,
                 !.wrote = Len(rp) > 0]]

PrefetchOpened(s) ==
  LET t == tasks[s]
  IN /\ t.kind = "prefetch" /\ t.pc = "open"
     /\ IF 1 <= numPages[t.key]
          THEN /\ tasks' = [tasks EXCEPT ![s] = [t EXCEPT !.pc = "page", !.pageNum = 1]]
               /\ UNCHANGED <<pdfPagesCache, prefetchingSet>>
          ELSE PrefetchFinish(s, t, t.renderedPages)
     /\ UNCHANGED <<openKey, numPages, manifest, lastPrefetch>>
     /\ UNCHANGED lruVars
     /\ UNCHANGED navVars
     /\ UNCHANGED storeVars
     /\ UNCHANGED schedVars
     /\ UNCHANGED displayVars

PrefetchPageRendered(s) ==
  LET t == tasks[s]
      rp == Append(t.renderedPages, RenderPage(t.key, t.pageNum))
  IN /\ t.kind = "prefetch" /\ t.pc = "page"
     /\ IF t.pageNum + 1 <= numPages[t.key]
          THEN /\ tasks' = [tasks EXCEPT ![s] =
                    [t EXCEPT !.pageNum = t.pageNum + 1, !.renderedPages = rp]]
               /\ UNCHANGED <<pdfPagesCache, prefetchingSet>>
          ELSE PrefetchFinish(s, t, rp)
     /\ UNCHANGED <<openKey, numPages, manifest, lastPrefetch>>
     /\ UNCHANGED lruVars
     /\ UNCHANGED navVars
     /\ UNCHANGED storeVars
     /\ UNCHANGED schedVars
     /\ UNCHANGED displayVars

\* a catch block that stores what was rendered so far
PrefetchFailed_Partial(s) ==
  LET t == tasks[s]
  IN /\ t.kind = "prefetch" /\ t.pc \in {"open", "page"}
     /\ prefetchingSet' = prefetchingSet \ {t.key}
     /\ pdfPagesCache' = IF Len(t.renderedPages) > 0
                            THEN setPdfPages(pdfPagesCache, t.key, t.renderedPages)
                            ELSE pdfPagesCache
     /\ tasks' = [tasks EXCEPT ![s] = [t EXCEPT !.pc = "failed", !.pageNum = 0]]
     /\ UNCHANGED <<openKey, numPages, manifest, lastPrefetch>>
     /\ UNCHANGED lruVars
     /\ UNCHANGED navVars
     /\ UNCHANGED storeVars
     /\ UNCHANGED schedVars
     /\ UNCHANGED displayVars

\* a catch block that throws the error again
PrefetchFailed_Rethrow(s) ==
  LET t == tasks[s]
  IN /\ t.kind = "prefetch" /\ t.pc \in {"open", "page"}
     /\ prefetchingSet' = prefetchingSet \ {t.key}
     /\ tasks' = [tasks EXCEPT ![s] = [t EXCEPT !.pc = "failed", !.pageNum = 0, !.rejected = TRUE]]
     /\ UNCHANGED <<pdfPagesCache, openKey, numPages, manifest, lastPrefetch>>
     /\ UNCHANGED lruVars
     /\ UNCHANGED navVars
     /\ UNCHANGED storeVars
     /\ UNCHANGED schedVars
     /\ UNCHANGED displayVars

\* the delete placed at the end of the try block instead of in finally
PrefetchFailed_NoFinally(s) ==
  LET t == tasks[s]
  IN /\ t.kind = "prefetch" /\ t.pc \in {"open", "page"}
     /\ tasks' = [tasks EXCEPT ![s] = [t EXCEPT !.pc = "failed", !.pageNum = 0]]
     /\ UNCHANGED <<pdfPagesCache, prefetchingSet, openKey, numPages, manifest, lastPrefetch>>
     /\ UNCHANGED lruVars
     /\ UNCHANGED navVars
     /\ UNCHANGED storeVars
     /\ UNCHANGED schedVars
     /\ UNCHANGED displayVars

\* import, getDocument, getPage or render rejects: catch {} and finally.
PrefetchFailed(s) ==
  LET t == tasks[s]
  IN /\ t.kind = "prefetch" /\ t.pc \in {"open", "page"}
     /\ prefetchingSet' = prefetchingSet \ {t.key}
     /\ tasks' = [tasks EXCEPT ![s] = [t EXCEPT !.pc = "failed", !.pageNum = 0]]
     /\ UNCHANGED <<pdfPagesCache, openKey, numPages, manifest, lastPrefetch>>
     /\ UNCHANGED lruVars
     /\ UNCHANGED navVars
     /\ UNCHANGED storeVars
     /\ UNCHANGED schedVars
     /\ UNCHANGED displayVars

\* selectedFileIndex === null
NoIndex == -1

\* Array.prototype.findIndex with f.key === k: the first index, from 0, or -1.
RECURSIVE findIndexFrom(_, _, _)
findIndexFrom(files, k, i) ==
  IF i >= Len(files) THEN -1
  ELSE IF files[i + 1] = k THEN i
  ELSE findIndexFrom(files, k, i + 1)

findIndex(files, k) == findIndexFrom(files, k, 0)

\* ------------------------------------------- the viewers: prefetch effect
\* Array.prototype.slice(from, to), indices from 0
slice(files, from, to) ==
  SubSeq(files, from + 1, IF to < Len(files) THEN to ELSE Len(files))

\* FileBrowser's nextFiles prop: the five files after the selected one
nextFiles(files, k) ==
  LET index == findIndex(files, k)
  IN IF index = -1 THEN << >> ELSE slice(files, index + 1, index + 6)

\* useFiles().getAdjacentFile: the path offset places from filePath in the
\* view, or null (0)
getAdjacentFile(files, filePath, offset) ==
  LET index == findIndex(files, filePath)
  IN IF index = -1 \/ index + offset < 0 \/ index + offset >= Len(files)
       THEN 0
       ELSE files[(index + offset) + 1]

\* FilePage's nextPaths memo: getAdjacentFile for i = 1..5, the non-null ones
nextPaths(files, filePath) ==
  SelectSeq([i \in 1..5 |-> getAdjacentFile(files, filePath, i)], LAMBDA q : q # 0)

\* The dependency list of the prefetch effect, by viewer.  The joined key
\* strings (join(",") and later split(",").filter(Boolean)) are the key lists
\* themselves: keys are object paths, not empty and without a comma.
EffectDeps(v, files, k, ld) ==
  [loading |-> ld,
   next |-> IF v = "modal" THEN nextFiles(files, k)
            ELSE IF v = "page" THEN nextPaths(files, k)
            ELSE IF getAdjacentFile(files, k, 1) # 0
              THEN <<getAdjacentFile(files, k, 1)>> ELSE << >>,
   prev |-> IF v = "modal" THEN 0 ELSE getAdjacentFile(files, k, -1)]

\* a setTimeout(..., delay) of the effect run for document owner; andThen is
\* the path whose timeout the callback sets in turn (pageV1), or 0
Timeout(k, delay, owner, andThen) ==
  [key |-> k, delay |-> delay, owner |-> owner, andThen |-> andThen]

\* The body of the prefetch effect: the timeouts it sets, by due time.
\*   modal   FileModal: the next files at index * 100
\*   page    FilePage: the next paths at index * 100, prevPath at 600
\*   pageV1  FilePage, earlier revision: one timeout at 100 that prefetches
\*           nextPath and sets the timeout of prevPath 500 later
Timeouts(v, d, owner) ==
  IF v = "pageV1"
    THEN IF d.loading THEN << >>
         ELSE <<Timeout(IF d.next = << >> THEN 0 ELSE d.next[1], 100, owner, d.prev)>>
    ELSE IF d.loading \/ d.next = << >> THEN << >>
         ELSE [i \in 1..Len(d.next) |-> Timeout(d.next[i], (i - 1) * 100, owner, 0)]
              \o (IF v = "page" /\ d.prev # 0
                    THEN <<Timeout(d.prev, 600, owner, 0)>> ELSE << >>)

\* the effect without its cleanup function: the old timeouts stay
RunEffects_NoCleanup ==
  LET old == EffectDeps(viewer, filteredFiles, openKey, loading)
      new == EffectDeps(viewer, filteredFiles', openKey', loading')
  IN /\ viewer' = viewer
     /\ timers' = IF openKey' # 0 /\ (openKey = 0 \/ new # old)
                    THEN timers \o Timeouts(viewer, new, openKey')
                    ELSE timers

\* React after a state change of the viewer: when the viewer unmounts, or a
\* dependency of the prefetch effect changed, the cleanup clears every
\* timeout of the last run; the effect then runs again if still mounted.
RunEffects ==
  LET old == EffectDeps(viewer, filteredFiles, openKey, loading)
      new == EffectDeps(viewer, filteredFiles', openKey', loading')
  IN /\ viewer' = viewer
     /\ timers' = IF openKey' = 0 THEN << >>
                  ELSE IF openKey = 0 \/ new # old
                    THEN Timeouts(viewer, new, openKey')
                    ELSE timers

\* the earliest timeout fires: its callback calls prefetchPdf
TimerFires ==
  /\ timers # << >>
  /\ LET t == Head(timers)
     IN /\ IF t.key # 0
             THEN prefetchPdf(t.key)
             ELSE UNCHANGED <<pdfPagesCache, prefetchingSet, tasks, lastPrefetch>>
        /\ timers' = Tail(timers) \o
             (IF t.andThen # 0
                THEN <<Timeout(t.andThen, t.delay + 500, t.owner, 0)>> ELSE << >>)
  /\ UNCHANGED <<openKey, numPages, manifest, viewer>>
  /\ UNCHANGED lruVars
  /\ UNCHANGED navVars
  /\ UNCHANGED storeVars
  /\ UNCHANGED displayVars

\* -------------------------------------------- FileModal: load pages effect
\* The cleanup of the previous effect run sets its cancelled flag.
Cleanup(ts) == [s \in TaskIds |-> IF ts[s].kind = "modal" THEN Cancel(ts[s]) ELSE ts[s]]

\* Unmounting runs the cleanup and discards the component's state: a setState
\* call of a loadPages still running no longer reaches a mounted component.
Unmount(ts) ==
  [s \in TaskIds |->
     IF ts[s].kind = "modal" /\ Running(ts[s])
       THEN [Cancel(ts[s]) EXCEPT !.unmounted = TRUE]
       ELSE ts[s]]

\* the effect without its cache lookup result: every open loads
OpenFile_NoCacheCheck(k) ==
  LET cached == FALSE
  IN /\ k # openKey
     /\ openKey' = k
     /\ pdfPagesCache' = getPdfPages(pdfPagesCache, k)
     /\ error' = "null"
     /\ IF cached
          THEN /\ tasks' = Cleanup(tasks)
               /\ pages' = LRUGetValue(pdfPagesCache, k)
               /\ loading' = FALSE
          ELSE /\ FreeSlots # {}
               /\ tasks' = [Cleanup(tasks) EXCEPT ![FirstFree] =
                    NewTask("modal", k, IF manifest[k] > 0 THEN "images" ELSE "open")]
               /\ pages' = << >>
               /\ loading' = TRUE
     /\ UNCHANGED <<prefetchingSet, numPages, manifest, lastPrefetch>>
     /\ UNCHANGED lruVars
     /\ UNCHANGED navVars
     /\ UNCHANGED storeVars
     /\ RunEffects

\* the effect with setError(null) on the load path only, after the cache test
OpenFile_CachedKeepsError(k) ==
  LET cached == LRUHit(pdfPagesCache, k) /\ Len(LRUGetValue(pdfPagesCache, k)) > 0
  IN /\ k # openKey
     /\ openKey' = k
     /\ pdfPagesCache' = getPdfPages(pdfPagesCache, k)
     /\ IF cached
          THEN /\ tasks' = Cleanup(tasks)
               /\ pages' = LRUGetValue(pdfPagesCache, k)
               /\ loading' = FALSE
               /\ error' = error
          ELSE /\ FreeSlots # {}
               /\ tasks' = [Cleanup(tasks) EXCEPT ![FirstFree] =
                    NewTask("modal", k, IF manifest[k] > 0 THEN "images" ELSE "open")]
               /\ pages' = << >>
               /\ loading' = TRUE
               /\ error' = "null"
     /\ UNCHANGED <<prefetchingSet, numPages, manifest, lastPrefetch>>
     /\ UNCHANGED lruVars
     /\ UNCHANGED navVars
     /\ UNCHANGED storeVars
     /\ RunEffects

\* file.key changes to k (or the viewer mounts with k): cleanup, then the
\* effect body up to the first await.
OpenFile(k) ==
  LET cached == LRUHit(pdfPagesCache, k) /\ Len(LRUGetValue(pdfPagesCache, k)) > 0
  IN /\ k # openKey
     /\ openKey' = k
     /\ pdfPagesCache' = getPdfPages(pdfPagesCache, k)
     /\ error' = "null"
     /\ IF cached
          THEN /\ tasks' = Cleanup(tasks)
               /\ pages' = LRUGetValue(pdfPagesCache, k)
               /\ loading' = FALSE
          ELSE /\ FreeSlots # {}
               /\ tasks' = [Cleanup(tasks) EXCEPT ![FirstFree] =
                    NewTask("modal", k, IF manifest[k] > 0 THEN "images" ELSE "open")]
               /\ pages' = << >>
               /\ loading' = TRUE
     /\ UNCHANGED <<prefetchingSet, numPages, manifest, lastPrefetch>>
     /\ UNCHANGED lruVars
     /\ UNCHANGED navVars
     /\ UNCHANGED storeVars
     /\ RunEffects

\* the viewer unmounts: cleanup; the next mount starts from the defaults.
CloseFile ==
  /\ openKey # 0
  /\ openKey' = 0
  /\ tasks' = Unmount(tasks)
  /\ pages' = << >>
  /\ loading' = TRUE
  /\ error' = "null"
  /\ UNCHANGED <<pdfPagesCache, prefetchingSet, numPages, manifest, lastPrefetch>>
  /\ UNCHANGED lruVars
  /\ UNCHANGED navVars
  /\ UNCHANGED storeVars
  /\ RunEffects

\* the manifest path without its setPdfPages call
ModalImagesLoaded_NoCache(s) ==
  LET t == tasks[s]
      imageUrls == loadPagesFromImages(t.key, manifest[t.key])
  IN /\ t.kind = "modal" /\ t.pc = "images"
     /\ IF t.cancelled
          THEN /\ tasks' = [tasks EXCEPT ![s] = [t EXCEPT !.pc = "aborted"]]
               /\ UNCHANGED <<pages, loading>>
          ELSE /\ tasks' = [tasks EXCEPT ![s] =
                    [t EXCEPT !.pc = "done", !.renderedPages = imageUrls]]
               /\ pages' = imageUrls
               /\ loading' = FALSE
     /\ UNCHANGED <<pdfPagesCache, prefetchingSet, openKey, numPages, manifest, lastPrefetch,
                    error>>
     /\ UNCHANGED lruVars
     /\ UNCHANGED navVars
     /\ UNCHANGED storeVars
     /\ RunEffects

\* loadPagesFromImages settles: return when cancelled, else show the urls,
\* store them, clear the loading flag.
ModalImagesLoaded(s) ==
  LET t == tasks[s]
      imageUrls == loadPagesFromImages(t.key, manifest[t.key])
  IN /\ t.kind = "modal" /\ t.pc = "images"
     /\ IF t.cancelled
          THEN /\ tasks' = [tasks EXCEPT ![s] = [t EXCEPT !.pc = "aborted"]]
               /\ UNCHANGED <<pdfPagesCache, pages, loading>>
          ELSE /\ pdfPagesCache' = setPdfPages(pdfPagesCache, t.key, imageUrls)
               /\ tasks' = [tasks EXCEPT ![s] =
                    [t EXCEPT !.pc = "done", !.renderedPages = imageUrls, !.wrote = TRUE]]
               /\ pages' = imageUrls
               /\ loading' = FALSE
     /\ UNCHANGED <<prefetchingSet, openKey, numPages, manifest, lastPrefetch, error>>
     /\ UNCHANGED lruVars
     /\ UNCHANGED navVars
     /\ UNCHANGED storeVars
     /\ RunEffects

\* getDocument settles: return when cancelled, else enter the loop; a
\* document without pages falls through to finally.
ModalOpened(s) ==
  LET t == tasks[s]
  IN /\ t.kind = "modal" /\ t.pc = "open"
     /\ tasks' = [tasks EXCEPT ![s] =
          IF t.cancelled THEN [t EXCEPT !.pc = "aborted"]
          ELSE IF 1 <= numPages[t.key] THEN [t EXCEPT !.pc = "page", !.pageNum = 1]
          ELSE [t EXCEPT !.pc = "done"]]
     /\ loading' = IF ~t.cancelled /\ numPages[t.key] < 1 THEN FALSE ELSE loading
     /\ UNCHANGED <<pdfPagesCache, prefetchingSet, openKey, numPages, manifest, lastPrefetch,
                    pages, error>>
     /\ UNCHANGED lruVars
     /\ UNCHANGED navVars
     /\ UNCHANGED storeVars
     /\ RunEffects

\* setPdfPages called inside the loop, after every page
ModalPageRendered_Partial(s) ==
  LET t == tasks[s]
      rp == Append(t.renderedPages, RenderPage(t.key, t.pageNum))
      shown == [t EXCEPT !.renderedPages = rp, !.callbacks = t.callbacks + 1,
                         !.lateCallbacks = t.lateCallbacks + (IF t.cancelled THEN 1 ELSE 0)]
  IN /\ t.kind = "modal" /\ t.pc = "page"
     /\ pdfPagesCache' = setPdfPages(pdfPagesCache, t.key, rp)
     /\ pages' = IF t.unmounted THEN pages ELSE rp
     /\ tasks' = [tasks EXCEPT ![s] =
          IF t.pageNum + 1 <= numPages[t.key]
            THEN IF t.cancelled THEN [shown EXCEPT !.pc = "aborted", !.pageNum = 0]
                 ELSE [shown EXCEPT !.pageNum = t.pageNum + 1]
            ELSE [shown EXCEPT !.pc = "done", !.pageNum = 0, !.wrote = TRUE]]
     /\ loading' = IF t.pageNum + 1 > numPages[t.key] /\ ~t.cancelled THEN FALSE ELSE loading
     /\ UNCHANGED <<prefetchingSet, openKey, numPages, manifest, lastPrefetch, error>>
     /\ UNCHANGED lruVars
     /\ UNCHANGED navVars
     /\ UNCHANGED storeVars
     /\ RunEffects

\* page.render settles: push, setPages([...renderedPages]), next iteration;
\* after the last page the guarded write and finally.
ModalPageRendered(s) ==
  LET t == tasks[s]
      rp == Append(t.renderedPages, RenderPage(t.key, t.pageNum))
      shown == [t EXCEPT !.renderedPages = rp, !.callbacks = t.callbacks + 1,
                         !.lateCallbacks = t.lateCallbacks + (IF t.cancelled THEN 1 ELSE 0)]
  IN /\ t.kind = "modal" /\ t.pc = "page"
     /\ pages' = IF t.unmounted THEN pages ELSE rp
     /\ IF t.pageNum + 1 <= numPages[t.key]
          THEN /\ tasks' = [tasks EXCEPT ![s] =
                    IF t.cancelled THEN [shown EXCEPT !.pc = "aborted", !.pageNum = 0]
                    ELSE [shown EXCEPT !.pageNum = t.pageNum + 1]]
               /\ UNCHANGED <<pdfPagesCache, loading>>
          ELSE IF ~t.cancelled /\ Len(rp) > 0
            THEN /\ pdfPagesCache' = setPdfPages(pdfPagesCache, t.key, rp)
                 /\ tasks' = [tasks EXCEPT ![s] =
                      [shown EXCEPT !.pc = "done", !.pageNum = 0, !.wrote = TRUE]]
                 /\ loading' = FALSE
            ELSE /\ tasks' = [tasks EXCEPT ![s] =
                      [shown EXCEPT !.pc = "aborted", !.pageNum = 0]]
                 /\ UNCHANGED <<pdfPagesCache, loading>>
     /\ UNCHANGED <<prefetchingSet, openKey, numPages, manifest, lastPrefetch, error>>
     /\ UNCHANGED lruVars
     /\ UNCHANGED navVars
     /\ UNCHANGED storeVars
     /\ RunEffects

\* catch and finally without their !cancelled tests
ModalFailed_Unguarded(s) ==
  LET t == tasks[s]
  IN /\ t.kind = "modal" /\ t.pc \in {"open", "page"}
     /\ tasks' = [tasks EXCEPT ![s] = [t EXCEPT !.pc = "failed", !.pageNum = 0]]
     /\ error' = "Failed to load PDF"
     /\ loading' = FALSE
     /\ UNCHANGED <<pdfPagesCache, prefetchingSet, openKey, numPages, manifest, lastPrefetch,
                    pages>>
     /\ UNCHANGED lruVars
     /\ UNCHANGED navVars
     /\ UNCHANGED storeVars
     /\ RunEffects

\* a catch that starts the load again instead of ending the attempt
ModalFailed_Retries(s) ==
  LET t == tasks[s]
  IN /\ t.kind = "modal" /\ t.pc \in {"open", "page"}
     /\ tasks' = [tasks EXCEPT ![s] =
          IF t.cancelled THEN [t EXCEPT !.pc = "failed", !.pageNum = 0]
          ELSE [t EXCEPT !.pc = "open", !.pageNum = 0, !.renderedPages = << >>]]
     /\ error' = IF t.cancelled THEN error ELSE "Failed to load PDF"
     /\ UNCHANGED <<pdfPagesCache, prefetchingSet, openKey, numPages, manifest, lastPrefetch,
                    pages, loading>>
     /\ UNCHANGED lruVars
     /\ UNCHANGED navVars
     /\ UNCHANGED storeVars
     /\ RunEffects

\* an awaited call rejects: catch and finally, both guarded by !cancelled.
ModalFailed(s) ==
  LET t == tasks[s]
  IN /\ t.kind = "modal" /\ t.pc \in {"open", "page"}
     /\ tasks' = [tasks EXCEPT ![s] = [t EXCEPT !.pc = "failed", !.pageNum = 0]]
     /\ error' = IF t.cancelled THEN error ELSE "Failed to load PDF"
     /\ loading' = IF t.cancelled THEN loading ELSE FALSE
     /\ UNCHANGED <<pdfPagesCache, prefetchingSet, openKey, numPages, manifest, lastPrefetch,
                    pages>>
     /\ UNCHANGED lruVars
     /\ UNCHANGED navVars
     /\ UNCHANGED storeVars
     /\ RunEffects

\* ---------------------------------------------------------------- loadPdf
LoadPdf(k) ==
  LET cached == LRUHit(pdfPagesCache, k) /\ Len(LRUGetValue(pdfPagesCache, k)) > 0
  IN /\ pdfPagesCache' = getPdfPages(pdfPagesCache, k)
     /\ IF cached
          THEN UNCHANGED tasks
          ELSE /\ FreeSlots # {}
               /\ tasks' = [tasks EXCEPT ![FirstFree] = NewTask("loadPdf", k, "open")]
     /\ UNCHANGED <<prefetchingSet, openKey, numPages, manifest, lastPrefetch>>
     /\ UNCHANGED lruVars
     /\ UNCHANGED navVars
     /\ UNCHANGED storeVars
     /\ UNCHANGED schedVars
     /\ UNCHANGED displayVars

\* the caller raises the AbortSignal while loadPdf is suspended.
Abort(s) ==
  /\ tasks[s].kind = "loadPdf" /\ Running(tasks[s]) /\ ~tasks[s].cancelled
  /\ tasks' = [tasks EXCEPT ![s] = Cancel(tasks[s])]
  /\ UNCHANGED <<pdfPagesCache, prefetchingSet, openKey, numPages, manifest, lastPrefetch>>
  /\ UNCHANGED lruVars
  /\ UNCHANGED navVars
  /\ UNCHANGED storeVars
  /\ UNCHANGED schedVars
  /\ UNCHANGED displayVars

\* the page loop entered at pageNum = 0
LoadPdfOpened_ZeroBased(s) ==
  LET t == tasks[s]
  IN /\ t.kind = "loadPdf" /\ t.pc = "open"
     /\ tasks' = [tasks EXCEPT ![s] =
          IF t.cancelled THEN [t EXCEPT !.pc = "aborted", !.rejected = TRUE]
          ELSE IF 0 <= numPages[t.key] THEN [t EXCEPT !.pc = "page", !.pageNum = 0]
          ELSE [t EXCEPT !.pc = "done"]]
     /\ UNCHANGED <<pdfPagesCache, prefetchingSet, openKey, numPages, manifest, lastPrefetch>>
     /\ UNCHANGED lruVars
     /\ UNCHANGED navVars
     /\ UNCHANGED storeVars
     /\ UNCHANGED schedVars
     /\ UNCHANGED displayVars

\* getDocument settles: throw when aborted, else enter the loop at page 1.
LoadPdfOpened(s) ==
  LET t == tasks[s]
  IN /\ t.kind = "loadPdf" /\ t.pc = "open"
     /\ tasks' = [tasks EXCEPT ![s] =
          IF t.cancelled THEN [t EXCEPT !.pc = "aborted", !.rejected = TRUE]
          ELSE IF 1 <= numPages[t.key] THEN [t EXCEPT !.pc = "page", !.pageNum = 1]
          ELSE [t EXCEPT !.pc = "done"]]
     /\ UNCHANGED <<pdfPagesCache, prefetchingSet, openKey, numPages, manifest, lastPrefetch>>
     /\ UNCHANGED lruVars
     /\ UNCHANGED navVars
     /\ UNCHANGED storeVars
     /\ UNCHANGED schedVars
     /\ UNCHANGED displayVars

\* the loop without its signal check at the top of each iteration
LoadPdfPageRendered_NoCheck(s, cbAborts) ==
  LET t == tasks[s]
      rp == Append(t.renderedPages, RenderPage(t.key, t.pageNum))
      called == [t EXCEPT !.renderedPages = rp, !.callbacks = t.callbacks + 1,
                          !.lateCallbacks = t.lateCallbacks + (IF t.cancelled THEN 1 ELSE 0),
                          !.cbArgs = [len |-> Len(rp), pageNum |-> t.pageNum,
                                      totalPages |-> numPages[t.key]],
                          !.pageNum = 0]
      after == IF cbAborts /\ ~t.cancelled
                 THEN [called EXCEPT !.cancelled = TRUE]
                 ELSE called
  IN /\ t.kind = "loadPdf" /\ t.pc = "page"
     /\ IF t.pageNum + 1 <= numPages[t.key]
          THEN /\ tasks' = [tasks EXCEPT ![s] = [after EXCEPT !.pageNum = t.pageNum + 1]]
               /\ UNCHANGED pdfPagesCache
          ELSE /\ pdfPagesCache' = setPdfPages(pdfPagesCache, t.key, rp)
               /\ tasks' = [tasks EXCEPT ![s] = [after EXCEPT !.pc = "done", !.wrote = TRUE]]
     /\ UNCHANGED <<prefetchingSet, openKey, numPages, manifest, lastPrefetch>>
     /\ UNCHANGED lruVars
     /\ UNCHANGED navVars
     /\ UNCHANGED storeVars
     /\ UNCHANGED schedVars
     /\ UNCHANGED displayVars

\* onPageRendered given the new page alone instead of the pages so far
LoadPdfPageRendered_NewPageOnly(s, cbAborts) ==
  LET t == tasks[s]
      rp == Append(t.renderedPages, RenderPage(t.key, t.pageNum))
      called == [t EXCEPT !.renderedPages = rp, !.callbacks = t.callbacks + 1,
                          !.lateCallbacks = t.lateCallbacks + (IF t.cancelled THEN 1 ELSE 0),
                          !.cbArgs = [len |-> 1, pageNum |-> t.pageNum,
                                      totalPages |-> numPages[t.key]],
                          !.pageNum = 0]
      after == IF cbAborts /\ ~t.cancelled
                 THEN [called EXCEPT !.cancelled = TRUE]
                 ELSE called
  IN /\ t.kind = "loadPdf" /\ t.pc = "page"
     /\ IF t.pageNum + 1 <= numPages[t.key]
          THEN /\ tasks' = [tasks EXCEPT ![s] =
                    IF after.cancelled THEN [after EXCEPT !.pc = "aborted", !.rejected = TRUE]
                    ELSE [after EXCEPT !.pageNum = t.pageNum + 1]]
               /\ UNCHANGED pdfPagesCache
          ELSE IF Len(rp) > 0
            THEN /\ pdfPagesCache' = setPdfPages(pdfPagesCache, t.key, rp)
                 /\ tasks' = [tasks EXCEPT ![s] = [after EXCEPT !.pc = "done", !.wrote = TRUE]]
            ELSE /\ tasks' = [tasks EXCEPT ![s] = [after EXCEPT !.pc = "done"]]
                 /\ UNCHANGED pdfPagesCache
     /\ UNCHANGED <<prefetchingSet, openKey, numPages, manifest, lastPrefetch>>
     /\ UNCHANGED lruVars
     /\ UNCHANGED navVars
     /\ UNCHANGED storeVars
     /\ UNCHANGED schedVars
     /\ UNCHANGED displayVars

\* page.render settles: push, onPageRendered (which may abort), next iteration.
LoadPdfPageRendered(s, cbAborts) ==
  LET t == tasks[s]
      rp == Append(t.renderedPages, RenderPage(t.key, t.pageNum))
      called == [t EXCEPT !.renderedPages = rp, !.callbacks = t.callbacks + 1,
                          !.lateCallbacks = t.lateCallbacks + (IF t.cancelled THEN 1 ELSE 0),
                          !.cbArgs = [len |-> Len(rp), pageNum |-> t.pageNum,
                                      totalPages |-> numPages[t.key]],
                          !.pageNum = 0]
      after == IF cbAborts /\ ~t.cancelled
                 THEN [called EXCEPT !.cancelled = TRUE]
                 ELSE called
  IN /\ t.kind = "loadPdf" /\ t.pc = "page"
     /\ IF t.pageNum + 1 <= numPages[t.key]
          THEN /\ tasks' = [tasks EXCEPT ![s] =
                    IF after.cancelled THEN [after EXCEPT !.pc = "aborted", !.rejected = TRUE]
                    ELSE [after EXCEPT !.pageNum = t.pageNum + 1]]
               /\ UNCHANGED pdfPagesCache
          ELSE IF Len(rp) > 0
            THEN /\ pdfPagesCache' = setPdfPages(pdfPagesCache, t.key, rp)
                 /\ tasks' = [tasks EXCEPT ![s] = [after EXCEPT !.pc = "done", !.wrote = TRUE]]
            ELSE /\ tasks' = [tasks EXCEPT ![s] = [after EXCEPT !.pc = "done"]]
                 /\ UNCHANGED pdfPagesCache
     /\ UNCHANGED <<prefetchingSet, openKey, numPages, manifest, lastPrefetch>>
     /\ UNCHANGED lruVars
     /\ UNCHANGED navVars
     /\ UNCHANGED storeVars
     /\ UNCHANGED schedVars
     /\ UNCHANGED displayVars

\* an awaited call rejects: loadPdf has no try block, its promise rejects.
LoadPdfFailed(s) ==
  LET t == tasks[s]
  IN /\ t.kind = "loadPdf" /\ t.pc \in {"open", "page"}
     /\ tasks' = [tasks EXCEPT ![s] =
          [t EXCEPT !.pc = "failed", !.pageNum = 0, !.rejected = TRUE]]
     /\ UNCHANGED <<pdfPagesCache, prefetchingSet, openKey, numPages, manifest, lastPrefetch>>
     /\ UNCHANGED lruVars
     /\ UNCHANGED navVars
     /\ UNCHANGED storeVars
     /\ UNCHANGED schedVars
     /\ UNCHANGED displayVars

NextPrefetch ==
  \/ \E k \in Docs : PrefetchPdf(k)
  \/ \E s \in TaskIds, imageError \in BOOLEAN : PrefetchImagesLoaded(s, imageError)
  \/ \E s \in TaskIds : PrefetchOpened(s)
  \/ \E s \in TaskIds : PrefetchPageRendered(s)
  \/ \E s \in TaskIds : PrefetchFailed(s)

NextModal ==
  \/ \E k \in Docs : OpenFile(k)
  \/ CloseFile
  \/ \E s \in TaskIds : ModalImagesLoaded(s)
  \/ \E s \in TaskIds : ModalOpened(s)
  \/ \E s \in TaskIds : ModalPageRendered(s)
  \/ \E s \in TaskIds : ModalFailed(s)

NextLoadPdf ==
  \/ \E k \in Docs : LoadPdf(k)
  \/ \E s \in TaskIds : Abort(s)
  \/ \E s \in TaskIds : LoadPdfOpened(s)
  \/ \E s \in TaskIds, cbAborts \in BOOLEAN : LoadPdfPageRendered(s, cbAborts)
  \/ \E s \in TaskIds : LoadPdfFailed(s)

\* the viewer application: FileModal and the prefetch scheduler
Next == NextPrefetch \/ NextModal

Spec == Init /\ [][Next]_vars

\* every renderer together
NextAll == NextPrefetch \/ NextModal \/ NextLoadPdf

SpecAll == Init /\ [][NextAll]_vars

\* the direct opens: the viewer and loadPdf
NextDirect == NextModal \/ NextLoadPdf

SpecDirect == Init /\ [][NextDirect]_vars

\* loadPdf alone, with callers that may abort
SpecLoadPdf == Init /\ [][NextLoadPdf]_vars

\* the prefetch scheduler alone; every awaited operation eventually settles
PrefetchStep(s) ==
  \/ \E imageError \in BOOLEAN : PrefetchImagesLoaded(s, imageError)
  \/ PrefetchOpened(s)
  \/ PrefetchPageRendered(s)
  \/ PrefetchFailed(s)

FairPrefetch ==
  Init /\ [][NextPrefetch]_vars /\ \A s \in TaskIds : WF_vars(PrefetchStep(s))

\* the direct opens; every awaited operation eventually settles
ModalStep(s) ==
  \/ ModalImagesLoaded(s)
  \/ ModalOpened(s)
  \/ ModalPageRendered(s)
  \/ ModalFailed(s)

LoadPdfStep(s) ==
  \/ LoadPdfOpened(s)
  \/ \E cbAborts \in BOOLEAN : LoadPdfPageRendered(s, cbAborts)
  \/ LoadPdfFailed(s)

FairDirect ==
  /\ Init /\ [][NextDirect]_vars
  /\ \A s \in TaskIds : WF_vars(ModalStep(s)) /\ WF_vars(LoadPdfStep(s))

\* ------------------------------------------------ FileBrowser: navigation
NavKeys == 1..NumKeys

\* the views: every list of at most MaxView keys
Views == UNION {[1..n -> NavKeys] : n \in 0..MaxView}

selectedFileIndex ==
  IF openFile = 0 THEN NoIndex
  ELSE LET index == findIndex(filteredFiles, openFile)
       IN IF index >= 0 THEN index ELSE NoIndex

selectedFile ==
  IF selectedFileIndex # NoIndex THEN filteredFiles[selectedFileIndex + 1] ELSE 0

hasPrev == selectedFileIndex # NoIndex /\ selectedFileIndex > 0

\* hasNext comparing with length instead of length - 1
hasNext_OffByOne == selectedFileIndex # NoIndex /\ selectedFileIndex < Len(filteredFiles)

hasNext == selectedFileIndex # NoIndex /\ selectedFileIndex < Len(filteredFiles) - 1

\* history: keep the previous action and add this one
Remember(op, guard) ==
  LET rec == [op |-> op, from |-> openFile, enabled |-> guard]
  IN IF Len(navHistory) = 0 THEN <<rec>> ELSE <<navHistory[Len(navHistory)], rec>>

handlePrev ==
  /\ IF selectedFileIndex # NoIndex /\ selectedFileIndex > 0
       THEN openFile' = filteredFiles[(selectedFileIndex - 1) + 1]
       ELSE UNCHANGED openFile
  /\ navHistory' = Remember("prev", selectedFileIndex # NoIndex /\ selectedFileIndex > 0)
  /\ UNCHANGED filteredFiles

\* handleNext that steps over the neighbour when it can
handleNext_SkipsOne ==
  /\ IF selectedFileIndex # NoIndex /\ selectedFileIndex < Len(filteredFiles) - 1
       THEN openFile' = filteredFiles[IF selectedFileIndex + 2 < Len(filteredFiles)
                                        THEN (selectedFileIndex + 2) + 1
                                        ELSE (selectedFileIndex + 1) + 1]
       ELSE UNCHANGED openFile
  /\ navHistory' = Remember("next",
       selectedFileIndex # NoIndex /\ selectedFileIndex < Len(filteredFiles) - 1)
  /\ UNCHANGED filteredFiles

handleNext ==
  /\ IF selectedFileIndex # NoIndex /\ selectedFileIndex < Len(filteredFiles) - 1
       THEN openFile' = filteredFiles[(selectedFileIndex + 1) + 1]
       ELSE UNCHANGED openFile
  /\ navHistory' = Remember("next",
       selectedFileIndex # NoIndex /\ selectedFileIndex < Len(filteredFiles) - 1)
  /\ UNCHANGED filteredFiles

handleClose ==
  /\ openFile' = 0
  /\ navHistory' = << >>
  /\ UNCHANGED filteredFiles

\* the rest of the program does not take part in navigation
NavFrame ==
  /\ UNCHANGED <<pdfPagesCache, prefetchingSet, tasks, openKey, numPages, manifest,
                 lastPrefetch>>
  /\ UNCHANGED lruVars
  /\ UNCHANGED displayVars
  /\ UNCHANGED storeVars
  /\ UNCHANGED schedVars

\* a click on the card of a listed file
CardClick(i) ==
  /\ i \in 1..Len(filteredFiles)
  /\ openFile' = filteredFiles[i]
  /\ navHistory' = << >>
  /\ UNCHANGED filteredFiles
  /\ NavFrame

\* the viewer's buttons: each is rendered only when its flag holds
ClickPrev == selectedFile # 0 /\ hasPrev /\ handlePrev /\ NavFrame

ClickNext == selectedFile # 0 /\ hasNext /\ handleNext /\ NavFrame

ClickClose == selectedFile # 0 /\ handleClose /\ NavFrame

\* the viewer's keydown listener
handleKeyDown(key) ==
  /\ selectedFile # 0
  /\ IF key = "Escape" THEN handleClose
     ELSE IF key = "ArrowLeft" /\ hasPrev THEN handlePrev
     ELSE IF key = "ArrowRight" /\ hasNext THEN handleNext
     ELSE UNCHANGED navVars
  /\ NavFrame

\* the viewer's touchend listener after a dominant horizontal swipe:
\* deltaX > 0 is a swipe to the right, deltaX < 0 a swipe to the left
handleTouchEnd(deltaX) ==
  /\ selectedFile # 0
  /\ IF deltaX > 0 /\ hasPrev THEN handlePrev
     ELSE IF deltaX < 0 /\ hasNext THEN handleNext
     ELSE UNCHANGED navVars
  /\ NavFrame

\* a change of filter, search or sort order gives another view
SetView(v) ==
  /\ v # filteredFiles
  /\ filteredFiles' = v
  /\ navHistory' = << >>
  /\ UNCHANGED openFile
  /\ NavFrame

\* the view is any list; the "file" query parameter of the URL is any key or absent
InitNav ==
  /\ RenderIdle
  /\ lru = << >> /\ maxSize = 1 /\ touchOrder = << >> /\ lastOp = NoOp
  /\ openFile \in {0} \cup NavKeys
  /\ filteredFiles \in Views
  /\ navHistory = << >>

NextNav ==
  \/ \E i \in 1..MaxView : CardClick(i)
  \/ ClickPrev
  \/ ClickNext
  \/ ClickClose
  \/ \E key \in {"Escape", "ArrowLeft", "ArrowRight"} : handleKeyDown(key)
  \/ \E deltaX \in {-1, 1} : handleTouchEnd(deltaX)
  \/ \E v \in Views : SetView(v)

SpecNav == InitNav /\ [][NextNav]_vars

\* ------------------------------------------------- lib/cache.ts: filesCache
\* a FileItem: key and size (uploaded plays no part)
FileItems == [key : LruKeys, size : LruValues]

\* the pages of a listing: every list of at most MaxBatch items
Batches == UNION {[1..n -> FileItems] : n \in 0..MaxBatch}

\* appendToFilesCache(newFiles, cursor, hasMore) applied to the cache fc
appendToFilesCache(fc, newFiles, cursor, hasMore) ==
  LET existingKeys == {fc.files[i].key : i \in 1..Len(fc.files)}
      uniqueNewFiles == SelectSeq(newFiles, LAMBDA f : f.key \notin existingKeys)
  IN [files |-> fc.files \o uniqueNewFiles, cursor |-> cursor, hasMore |-> hasMore]

resetFilesCache == [files |-> << >>, cursor |-> "null", hasMore |-> TRUE]

\* the rest of the program takes no part
StoreFrame ==
  /\ UNCHANGED renderVars
  /\ UNCHANGED lruVars
  /\ UNCHANGED navVars
  /\ UNCHANGED schedVars

AppendToFilesCache(newFiles, cursor, hasMore) ==
  /\ filesCache' = appendToFilesCache(filesCache, newFiles, cursor, hasMore)
  /\ UNCHANGED previewCache
  /\ StoreFrame

ResetFilesCache ==
  /\ filesCache' = resetFilesCache
  /\ UNCHANGED previewCache
  /\ StoreFrame

InitStore ==
  /\ RenderIdle
  /\ NavIdle
  /\ lru = << >> /\ maxSize = 1 /\ touchOrder = << >> /\ lastOp = NoOp

NextFiles ==
  \/ \E newFiles \in Batches, cursor \in {"null", "c1"}, hasMore \in BOOLEAN :
       AppendToFilesCache(newFiles, cursor, hasMore)
  \/ ResetFilesCache

SpecFiles == InitStore /\ [][NextFiles]_vars

\* ------------------------------- progressive-image.tsx: the preview cache
\* The "img-previews" item of localStorage is a JSON object from image src
\* to data url; JSON.parse of JSON.stringify gives back its string keys in
\* insertion order, which is the order of Object.keys.  previewCache is the
\* sequence of its entries in that order.

\* setCachedPreview with > in place of >=
setCachedPreview_EvictAbove(cache, src, dataUrl) ==
  LET keys == [i \in 1..Len(cache) |-> cache[i].key]
      toRemove == IF Len(keys) > MAX_CACHED
                    THEN {keys[i] : i \in 1..(IF Len(keys) < 100 THEN Len(keys) ELSE 100)}
                    ELSE {}
  IN MapSet(SelectSeq(cache, LAMBDA e : e.key \notin toRemove), src, dataUrl)

\* setCachedPreview(src, dataUrl) applied to the parsed cache: the object
\* written back with setItem
setCachedPreview(cache, src, dataUrl) ==
  LET keys == [i \in 1..Len(cache) |-> cache[i].key]
      toRemove == IF Len(keys) >= MAX_CACHED
                    THEN {keys[i] : i \in 1..(IF Len(keys) < 100 THEN Len(keys) ELSE 100)}
                    ELSE {}
  IN MapSet(SelectSeq(cache, LAMBDA e : e.key \notin toRemove), src, dataUrl)

\* the src of the next image never seen, images being numbered as they come
NextSrc ==
  IF previewCache = << >> THEN 1
  ELSE 1 + (CHOOSE m \in MapKeys(previewCache) : \A k \in MapKeys(previewCache) : k <= m)

\* the images a call is made for: the next new one, the first one, and the
\* one of the oldest entry
Srcs ==
  {k \in {NextSrc, 1} : k <= MaxSrc}
    \cup (IF previewCache = << >> THEN {} ELSE {previewCache[1].key})

\* a call; stored is false when localStorage throws (full or unavailable)
SetCachedPreview(src, dataUrl, stored) ==
  /\ previewCache' = IF stored THEN setCachedPreview(previewCache, src, dataUrl)
                               ELSE previewCache
  /\ UNCHANGED filesCache
  /\ StoreFrame

NextPreviews ==
  \E src \in Srcs, stored \in BOOLEAN : SetCachedPreview(src, "preview", stored)

SpecPreviews == InitStore /\ [][NextPreviews]_vars

\* ------------------------------------------ a viewer and its prefetch timers
\* A viewer over a view that lists documents 1, 2, ... in this order; every
\* document has one page and no manifest entry.
InitViewer ==
  /\ pdfPagesCache = << >>
  /\ prefetchingSet = {}
  /\ tasks = [s \in TaskIds |-> IdleTask]
  /\ openKey = 0
  /\ numPages = [k \in NavKeys |-> 1]
  /\ manifest = [k \in NavKeys |-> 0]
  /\ lastPrefetch = NoPrefetch
  /\ DisplayDefault
  /\ StoreIdle
  /\ openFile = 0
  /\ filteredFiles \in {[i \in 1..n |-> i] : n \in 0..MaxView}
  /\ navHistory = << >>
  /\ timers = << >>
  /\ viewer \in {"modal", "page", "pageV1"}
  /\ lru = << >> /\ maxSize = 1 /\ touchOrder = << >> /\ lastOp = NoOp

\* the open document is one of the view; the awaited calls settle; timeouts
\* fire; a prefetch runs to its last page (its failure is in NextPrefetch)
NextViewer ==
  \/ \E i \in 1..MaxView : i <= Len(filteredFiles) /\ OpenFile(filteredFiles[i])
  \/ CloseFile
  \/ \E s \in TaskIds : ModalOpened(s)
  \/ \E s \in TaskIds : ModalPageRendered(s)
  \/ \E s \in TaskIds : ModalFailed(s)
  \/ TimerFires
  \/ \E s \in TaskIds : PrefetchOpened(s)
  \/ \E s \in TaskIds : PrefetchPageRendered(s)

SpecViewer == InitViewer /\ [][NextViewer]_vars

\* ================================================================ claims
DirectOpen(t) == t.kind \in {"modal", "loadPdf"}

RunningFor(kind, k) ==
  {s \in TaskIds : tasks[s].kind = kind /\ tasks[s].key = k /\ Running(tasks[s])}

\* C1: while a prefetch of a key is running, no direct open of the same key
\* runs its own fetch/rasterization sequence (one sequence per key).
C1_OneSequencePerKey ==
  \A k \in Docs :
    RunningFor("prefetch", k) # {} =>
      \A s \in RunningFor("modal", k) : tasks[s].cancelled

\* C2: a direct-open attempt that was cancelled before it finished never
\* wrote its key to the Document Cache.
C2_CancelledNeverWrites ==
  \A s \in TaskIds :
    DirectOpen(tasks[s]) /\ tasks[s].cancelled => ~tasks[s].wrote

\* C3: the cache never holds more than maxSize entries, and a set of a new
\* key on a full cache removes exactly the least recently accessed entry.
C3_BoundedEvictsLeastRecent ==
  /\ LRUSize(lru) <= maxSize
  /\ (lastOp.op = "set" /\ ~lastOp.wasPresent /\ lastOp.sizeBefore = maxSize)
       => (lastOp.removed = {lastOp.lra} /\ LRUSize(lru) = maxSize)
  /\ (lastOp.op = "set" /\ (lastOp.wasPresent \/ lastOp.sizeBefore < maxSize))
       => lastOp.removed = {}

C3_Witness ==
  /\ lastOp.op = "set" /\ ~lastOp.wasPresent
  /\ maxSize >= 2 /\ lastOp.sizeBefore = maxSize
  /\ lastOp.removed = {lastOp.lra}
  /\ lastOp.key # 1 /\ lastOp.lra # 1 /\ MapHas(lru, 1)

\* the last n elements of a sequence
LastN(q, n) == IF Len(q) <= n THEN q ELSE SubSeq(q, Len(q) - n + 1, Len(q))

\* C4: after set/get operations only, the keys present are the maxSize most
\* recently touched distinct keys, in that order; a get hit leaves its key
\* away from the eviction end; capacity 2 and sets of 1, 2, 3 leave 2 and 3.
C4_MostRecentlyTouched ==
  /\ [i \in 1..Len(lru) |-> lru[i].key] = LastN(touchOrder, maxSize)
  /\ (lastOp.op = "get" /\ lastOp.wasPresent /\ Len(lru) > 1)
       => lru[1].key # lastOp.key
  /\ (maxSize = 2 /\ touchOrder = <<1, 2, 3>>) => MapKeys(lru) = {2, 3}

C4_Witness ==
  /\ maxSize = 2 /\ touchOrder = <<1, 2, 3>>
  /\ lastOp.op = "set" /\ lastOp.key = 3 /\ lastOp.removed = {1}

\* C5: the step in which a render attempt fails leaves the Document Cache
\* as it was: nothing of the failed attempt is stored.
C5_FailureWritesNothing ==
  [][\A s \in TaskIds :
       (tasks[s].pc # "failed" /\ tasks'[s].pc = "failed")
         => pdfPagesCache' = pdfPagesCache]_vars

C5_Witness ==
  \E s \in TaskIds :
    /\ tasks[s].pc = "failed"
    /\ Len(tasks[s].renderedPages) >= 1
    /\ Len(tasks[s].renderedPages) < numPages[tasks[s].key]
    /\ ~LRUHit(pdfPagesCache, tasks[s].key)

\* C6: at most one prefetch task per key is active, and a key is in
\* prefetchingSet exactly while a prefetch task for it is outstanding.
C6_OnePrefetchPerKey ==
  \A k \in Docs :
    /\ Cardinality(RunningFor("prefetch", k)) <= 1
    /\ (k \in prefetchingSet) <=> (RunningFor("prefetch", k) # {})

C6_Witness ==
  /\ lastPrefetch.key \in prefetchingSet
  /\ lastPrefetch.index = 0
  /\ Cardinality(RunningFor("prefetch", lastPrefetch.key)) = 1
  /\ FreeSlots # {}

\* C7: a key put in prefetchingSet is eventually removed from it, and the
\* step that completes a prefetch call leaves its key out of the set.
C7_InFlightCleared ==
  /\ \A k \in Docs : (k \in prefetchingSet) ~> (k \notin prefetchingSet)
  /\ [][\A s \in TaskIds :
          (tasks[s].kind = "prefetch" /\ Running(tasks[s]) /\ ~Running(tasks'[s]))
            => tasks[s].key \notin prefetchingSet']_vars

C7_Witness ==
  \E s \in TaskIds :
    /\ tasks[s].kind = "prefetch" /\ tasks[s].pc = "failed"
    /\ tasks[s].key \notin prefetchingSet

SameEntries(c, d) ==
  /\ MapKeys(c) = MapKeys(d)
  /\ \A k \in MapKeys(c) : MapGet(c, k) = MapGet(d, k)

SkippedPrefetch(k) ==
  PrefetchPdf(k) /\ (LRUHit(pdfPagesCache, k) \/ k \in prefetchingSet)

\* C8 as stated: a prefetchPdf call on a cached or in-flight key changes
\* neither the cache (contents, recency order) nor the in-flight set.
C8_SkipChangesNothing ==
  [][\A k \in Docs :
       SkippedPrefetch(k) =>
         /\ tasks' = tasks
         /\ prefetchingSet' = prefetchingSet
         /\ pdfPagesCache' = pdfPagesCache]_vars

\* C8 amended: such a call starts no render and leaves the in-flight set and
\* the cache's contents unchanged; a cached key becomes the most recently
\* used entry, the other entries keeping their order.
C8_SkipKeepsContents ==
  [][\A k \in Docs :
       SkippedPrefetch(k) =>
         /\ tasks' = tasks
         /\ prefetchingSet' = prefetchingSet
         /\ SameEntries(pdfPagesCache, pdfPagesCache')
         /\ MapDelete(pdfPagesCache', k) = MapDelete(pdfPagesCache, k)
         /\ LRUHit(pdfPagesCache, k) =>
              pdfPagesCache'[Len(pdfPagesCache')].key = k]_vars

C8_Witness ==
  /\ lastPrefetch.index = 1
  /\ Len(pdfPagesCache) = 2
  /\ pdfPagesCache[2].key = lastPrefetch.key

\* C9: every entry of the pdf-pages cache is a complete sequence: as many
\* elements as the document has pages, element i being page i of that key.
C9_EntriesComplete ==
  \A i \in 1..Len(pdfPagesCache) :
    LET k == pdfPagesCache[i].key
        v == pdfPagesCache[i].value
    IN /\ Len(v) > 0
       /\ \A j \in 1..Len(v) :
            /\ v[j].key = k /\ v[j].page = j
            /\ Len(v) = IF v[j].src = "url" THEN manifest[k] ELSE numPages[k]

C9_Witness ==
  \E i \in 1..Len(pdfPagesCache), s \in TaskIds :
    /\ Len(pdfPagesCache[i].value) >= 2
    /\ Running(tasks[s]) /\ tasks[s].key = pdfPagesCache[i].key
    /\ Len(tasks[s].renderedPages) = 1

\* C10 as stated: once cancellation has been signalled, no further
\* page-ready callback is delivered and the attempt writes no cache entry.
C10_NoCallbackAfterCancel ==
  \A s \in TaskIds :
    DirectOpen(tasks[s]) =>
      /\ tasks[s].lateCallbacks = 0
      /\ tasks[s].cancelled => ~tasks[s].wrote

\* C10 amended: after cancellation only the page that was in progress when
\* it was signalled still delivers its callback; a cancellation signalled at
\* a page boundary with pages left is followed by no callback, no further
\* page and no cache write.
C10_AtMostThePageInProgress ==
  \A s \in TaskIds :
    DirectOpen(tasks[s]) =>
      /\ tasks[s].lateCallbacks <= (IF tasks[s].cancelMidPage THEN 1 ELSE 0)
      /\ (/\ tasks[s].cancelled /\ ~tasks[s].cancelMidPage
          /\ tasks[s].callbacks < numPages[tasks[s].key])
           => /\ tasks[s].pc \in {"images", "open", "aborted", "failed"}
              /\ ~tasks[s].wrote

C10_Witness ==
  \E s \in TaskIds :
    /\ tasks[s].kind = "loadPdf" /\ tasks[s].pc = "aborted"
    /\ tasks[s].cancelled /\ ~tasks[s].cancelMidPage
    /\ tasks[s].callbacks = 2 /\ numPages[tasks[s].key] >= 3
    /\ ~LRUHit(pdfPagesCache, tasks[s].key)

\* pages 1..Len(q) of document k, in page order
InPageOrder(q, k) == \A j \in 1..Len(q) : q[j].key = k /\ q[j].page = j

\* C11: every sequence a renderer holds, reports or displays lists pages
\* 1..k of its document in page order without gaps or repeats, and page
\* i + 1 is being rendered only when exactly pages 1..i are complete.
C11_PagesInOrder ==
  /\ \A s \in TaskIds :
       LET t == tasks[s]
       IN /\ InPageOrder(t.renderedPages, t.key)
          /\ t.pc = "page" => t.pageNum = Len(t.renderedPages) + 1
          /\ t.callbacks > 0 =>
               /\ t.callbacks = Len(t.renderedPages)
               /\ t.kind = "loadPdf" =>
                    (t.cbArgs.len = t.callbacks /\ t.cbArgs.pageNum = t.callbacks)
  /\ \A j \in 1..Len(pages) : pages[j].page = j
  /\ \A i \in 1..Len(pdfPagesCache) :
       InPageOrder(pdfPagesCache[i].value, pdfPagesCache[i].key)

C11_Witness ==
  \E s \in TaskIds :
    /\ tasks[s].kind = "loadPdf" /\ tasks[s].pc = "page"
    /\ tasks[s].pageNum = 3 /\ Len(tasks[s].renderedPages) = 2
    /\ tasks[s].callbacks = 2

\* C12: a loadPdf of a document of M pages calls onPageRendered once per
\* page, the i-th call with the first i pages, pageNum = i and totalPages = M;
\* an uncancelled successful call has made exactly M calls, and the call's
\* cache write comes only with the M-th.
C12_CallbackPerPage ==
  \A s \in TaskIds :
    LET t == tasks[s]
        M == numPages[t.key]
    IN t.kind = "loadPdf" =>
         /\ t.callbacks <= M
         /\ t.callbacks > 0 =>
              t.cbArgs = [len |-> t.callbacks, pageNum |-> t.callbacks, totalPages |-> M]
         /\ t.callbacks > 0 => Len(t.renderedPages) = t.callbacks
         /\ (t.pc = "done" /\ ~t.cancelled) => t.callbacks = M
         /\ t.wrote => t.callbacks = M
         /\ (t.pc = "done" /\ ~t.cancelled /\ M > 0) =>
              (t.wrote /\ LRUHit(pdfPagesCache, t.key)
                 /\ LRUGetValue(pdfPagesCache, t.key) = t.renderedPages)

C12_Witness ==
  \E s \in TaskIds :
    /\ tasks[s].kind = "loadPdf" /\ tasks[s].pc = "done" /\ ~tasks[s].cancelled
    /\ numPages[tasks[s].key] = 3 /\ tasks[s].callbacks = 3
    /\ tasks[s].cbArgs = [len |-> 3, pageNum |-> 3, totalPages |-> 3]
    /\ LRUHit(pdfPagesCache, tasks[s].key)

\* the n page-image references of document k, in page order
IsImageSequence(q, k, n) ==
  /\ Len(q) = n
  /\ \A j \in 1..n : q[j] = [key |-> k, page |-> j, src |-> "url"]

\* C13: an open of a document whose manifest entry counts n > 0 pages never
\* enters the rasterization path; when it completes uncancelled it displays
\* exactly the n page-image references in page order and the document is
\* cache-resident with that sequence.
C13_ManifestOpen ==
  /\ [](\A s \in TaskIds :
         LET t == tasks[s]
             n == manifest[t.key]
         IN (t.kind = "modal" /\ n > 0) =>
              /\ t.pc \in {"images", "done", "aborted"}
              /\ t.callbacks = 0
              /\ t.pc = "done" =>
                   /\ IsImageSequence(t.renderedPages, t.key, n)
                   /\ LRUHit(pdfPagesCache, t.key)
                   /\ IsImageSequence(LRUGetValue(pdfPagesCache, t.key), t.key, n))
  /\ [][\A s \in TaskIds :
          (tasks[s].kind = "modal" /\ tasks[s].pc = "images" /\ tasks'[s].pc = "done")
            => /\ IsImageSequence(pages', tasks[s].key, manifest[tasks[s].key])
               /\ ~loading' /\ error' = "null"]_vars

C13_Witness ==
  \E s \in TaskIds :
    /\ tasks[s].kind = "modal" /\ tasks[s].pc = "done"
    /\ manifest[tasks[s].key] = 3 /\ openKey = tasks[s].key
    /\ Len(pages) = 3 /\ ~loading
    /\ LRUHit(pdfPagesCache, tasks[s].key)

\* the test both direct opens make on the result of getPdfPages
CachedNonEmpty(k) ==
  LRUHit(pdfPagesCache, k) /\ Len(LRUGetValue(pdfPagesCache, k)) > 0

\* no call is started or advanced by the step
StartsNothing ==
  \A s \in TaskIds :
    /\ tasks'[s].kind = tasks[s].kind /\ tasks'[s].key = tasks[s].key
    /\ tasks'[s].pc = tasks[s].pc /\ tasks'[s].pageNum = tasks[s].pageNum
    /\ tasks'[s].renderedPages = tasks[s].renderedPages
    /\ tasks'[s].wrote = tasks[s].wrote

\* C14: opening a document whose key is cache-resident with a non-empty
\* entry shows (FileModal) the cached sequence in the same step, with the
\* loading flag off and no error, and starts no fetch, no rasterization and
\* no cache write: no call is started and the cache holds the same entries.
C14_CachedOpenStartsNothing ==
  [][\A k \in Docs :
       CachedNonEmpty(k) =>
         /\ OpenFile(k) =>
              /\ pages' = LRUGetValue(pdfPagesCache, k)
              /\ ~loading' /\ error' = "null"
              /\ StartsNothing
              /\ prefetchingSet' = prefetchingSet
              /\ SameEntries(pdfPagesCache, pdfPagesCache')
         /\ LoadPdf(k) =>
              /\ tasks' = tasks
              /\ prefetchingSet' = prefetchingSet
              /\ SameEntries(pdfPagesCache, pdfPagesCache')]_vars

C14_Witness ==
  /\ openKey # 0 /\ CachedNonEmpty(openKey)
  /\ pages = LRUGetValue(pdfPagesCache, openKey) /\ Len(pages) >= 2
  /\ ~loading
  /\ \A s \in TaskIds : tasks[s].kind # "modal" /\ ~Running(tasks[s])

\* C15: a prefetchPdf call never rejects; the step in which its fetch or
\* rasterization fails sets no error, changes nothing of what the viewer
\* shows and writes nothing to the cache, and no step of a prefetchPdf call
\* touches the viewer's error.
C15_PrefetchFailsSilently ==
  /\ [](\A s \in TaskIds : tasks[s].kind = "prefetch" => ~tasks[s].rejected)
  /\ [][\A s \in TaskIds :
          /\ (tasks[s].kind = "prefetch" /\ Running(tasks[s]) /\ tasks'[s].pc = "failed")
               => /\ error' = error /\ pages' = pages /\ loading' = loading
                  /\ pdfPagesCache' = pdfPagesCache
                  /\ ~tasks'[s].wrote
          /\ (tasks'[s].kind = "prefetch" /\ tasks'[s] # tasks[s])
               => error' = error]_vars

C15_Witness ==
  \E s \in TaskIds :
    /\ tasks[s].kind = "prefetch" /\ tasks[s].pc = "failed"
    /\ Len(tasks[s].renderedPages) >= 1
    /\ openKey = tasks[s].key /\ error = "null"
    /\ ~LRUHit(pdfPagesCache, tasks[s].key)
    /\ ~tasks[s].rejected

\* C16: get of a present key returns its value and makes the key the most
\* recently used entry, the keys, the values and the order of the other
\* entries staying as they were; get of an absent key returns undefined and
\* changes neither the contents nor the order.
C16_GetFrame ==
  [][\A k \in LruKeys :
       LruGet(k) =>
         IF MapHas(lru, k)
           THEN /\ lastOp'.result = MapGet(lru, k)
                /\ lru'[Len(lru')].key = k
                /\ MapKeys(lru') = MapKeys(lru)
                /\ SameEntries(lru, lru')
                /\ MapDelete(lru', k) = MapDelete(lru, k)
           ELSE /\ lastOp'.result = 0
                /\ lru' = lru
                /\ touchOrder' = touchOrder]_vars

C16_Witness ==
  /\ lastOp.op = "get" /\ lastOp.wasPresent /\ lastOp.result # 0
  /\ Len(lru) = 2 /\ lastOp.lra = lastOp.key
  /\ lru[2].key = lastOp.key

\* C17: set of a key that is present replaces its value and makes it the
\* most recently used entry; no other entry is evicted, even at capacity,
\* and the size is unchanged.
C17_OverwriteEvictsNothing ==
  [][\A k \in LruKeys, v \in LruValues :
       (LruSet(k, v) /\ MapHas(lru, k)) =>
         /\ MapGet(lru', k) = v
         /\ lru'[Len(lru')].key = k
         /\ MapKeys(lru') = MapKeys(lru)
         /\ LRUSize(lru') = LRUSize(lru)
         /\ MapDelete(lru', k) = MapDelete(lru, k)]_vars

C17_Witness ==
  /\ lastOp.op = "set" /\ lastOp.wasPresent
  /\ maxSize = 2 /\ lastOp.sizeBefore = maxSize
  /\ lastOp.lra = lastOp.key
  /\ Len(lru) = 2 /\ lru[2].key = lastOp.key

\* a call that rasterizes a source document without pages
ZeroPage(t) == t.kind # "none" /\ manifest[t.key] = 0 /\ numPages[t.key] = 0

\* C18: rendering a document without pages completes with an empty
\* sequence: the call does not fail or reject, writes nothing to the cache
\* and sets no error (an uncancelled viewer load clears the loading flag);
\* no entry of the pdf-pages cache is an empty sequence.
C18_ZeroPagesNeverCached ==
  /\ [](/\ \A i \in 1..Len(pdfPagesCache) : Len(pdfPagesCache[i].value) > 0
        /\ \A s \in TaskIds :
             (ZeroPage(tasks[s]) /\ tasks[s].pc = "done") =>
               /\ tasks[s].renderedPages = << >>
               /\ tasks[s].callbacks = 0
               /\ ~tasks[s].wrote /\ ~tasks[s].rejected)
  /\ [][\A s \in TaskIds :
          (ZeroPage(tasks[s]) /\ tasks[s].pc = "open" /\ tasks'[s].pc = "done") =>
            /\ pdfPagesCache' = pdfPagesCache
            /\ error' = error /\ pages' = pages
            /\ tasks[s].kind = "modal" => ~loading']_vars

C18_Witness ==
  \E s \in TaskIds :
    /\ ZeroPage(tasks[s]) /\ tasks[s].kind = "modal" /\ tasks[s].pc = "done"
    /\ openKey = tasks[s].key
    /\ pages = << >> /\ ~loading /\ error = "null"
    /\ ~LRUHit(pdfPagesCache, tasks[s].key)
    /\ Len(pdfPagesCache) > 0

\* the view lists no key twice
UniqueKeys(files) == \A i, j \in 1..Len(files) : files[i] = files[j] => i = j

\* the first position, from 1, of key k in the view (0: not listed)
FirstPosition(files, k) ==
  IF \E i \in 1..Len(files) : files[i] = k
    THEN CHOOSE i \in 1..Len(files) :
           files[i] = k /\ \A j \in 1..(i - 1) : files[j] # k
    ELSE 0

\* C19: for every view and every open key, the selected index is the index
\* of the key in the view, hasPrev holds exactly when it is above 0 and hasNext
\* exactly when it is below length - 1; with no open key, an empty view or a
\* key that is not listed there is no selection and neither flag holds.
C19_SelectionFlags ==
  LET p == FirstPosition(filteredFiles, openFile)
  IN IF openFile # 0 /\ p > 0
       THEN /\ selectedFileIndex = p - 1
            /\ selectedFile = openFile
            /\ hasPrev <=> (p - 1 > 0)
            /\ hasNext <=> (p - 1 < Len(filteredFiles) - 1)
       ELSE /\ selectedFileIndex = NoIndex
            /\ selectedFile = 0
            /\ ~hasPrev /\ ~hasNext

C19_Witness ==
  /\ Len(filteredFiles) = 3 /\ UniqueKeys(filteredFiles)
  /\ openFile = filteredFiles[2]
  /\ selectedFileIndex = 1 /\ hasPrev /\ hasNext

\* the next action: button, right arrow, swipe to the left
NextAction == ClickNext \/ handleKeyDown("ArrowRight") \/ handleTouchEnd(-1)

\* the prev action: button, left arrow, swipe to the right
PrevAction == ClickPrev \/ handleKeyDown("ArrowLeft") \/ handleTouchEnd(1)

\* C20: with a selection at position p of a view without repeated keys, the
\* next action opens the key at p + 1 when there is one and changes nothing
\* otherwise, the prev action opens the key at p - 1 when there is one and
\* changes nothing otherwise; next followed by prev is back at the original.
C20_NextPrevNeighbours ==
  /\ [][LET p == FirstPosition(filteredFiles, openFile)
            n == Len(filteredFiles)
        IN (UniqueKeys(filteredFiles) /\ openFile # 0 /\ p > 0) =>
             /\ NextAction =>
                  /\ openFile' = IF p < n THEN filteredFiles[p + 1] ELSE openFile
                  /\ filteredFiles' = filteredFiles
             /\ PrevAction =>
                  /\ openFile' = IF p > 1 THEN filteredFiles[p - 1] ELSE openFile
                  /\ filteredFiles' = filteredFiles]_vars
  /\ []((/\ UniqueKeys(filteredFiles) /\ Len(navHistory) = 2
         /\ navHistory[1].op = "next" /\ navHistory[1].enabled
         /\ navHistory[2].op = "prev")
          => openFile = navHistory[1].from)

C20_Witness ==
  /\ UniqueKeys(filteredFiles) /\ Len(filteredFiles) = 3
  /\ Len(navHistory) = 2
  /\ navHistory[1].op = "next" /\ navHistory[1].enabled
  /\ navHistory[2].op = "prev" /\ navHistory[2].enabled
  /\ openFile = navHistory[1].from /\ openFile = filteredFiles[2]

\* ---------------------------------------------------------------- C21
\* a step of a load attempt of the viewer whose cancelled flag is set
CancelledStep(s) ==
  /\ tasks[s].kind = "modal" /\ Running(tasks[s]) /\ tasks[s].cancelled
  /\ tasks'[s].pc # tasks[s].pc

\* C21: a step of a load attempt that navigation cancelled, its failure
\* included, leaves the viewer's error message and its loading flag as
\* they were.
C21_CancelledLeavesErrorAndLoading ==
  [][\A s \in TaskIds :
       CancelledStep(s) => (error' = error /\ loading' = loading)]_vars

\* a cancelled attempt has failed while another document is open and loading
C21_Witness ==
  \E s \in TaskIds :
    /\ tasks[s].kind = "modal" /\ tasks[s].cancelled /\ tasks[s].pc = "failed"
    /\ ~tasks[s].unmounted
    /\ openKey \notin {0, tasks[s].key}
    /\ loading /\ error = "null"

\* ---------------------------------------------------------------- C22
\* the step in which the load attempt in slot s, not cancelled, fails
FailsUncancelled(s) ==
  /\ tasks[s].kind = "modal" /\ Running(tasks[s]) /\ ~tasks[s].cancelled
  /\ tasks'[s].pc = "failed"

\* a load attempt of the viewer starts in slot s
StartsAttempt(s) ==
  /\ tasks'[s].kind = "modal" /\ Running(tasks'[s])
  /\ ~(tasks[s].kind = "modal" /\ Running(tasks[s]))

\* C22: the failure of a load attempt that is not cancelled sets the error
\* message, which was empty, and clears the loading flag; the message is set
\* by no other step, the failed attempt takes no further step, and an
\* attempt only starts when the open document changes.
C22_FailureSetsErrorOnce ==
  [][/\ \A s \in TaskIds :
          FailsUncancelled(s) =>
            (error = "null" /\ error' = "Failed to load PDF" /\ ~loading')
     /\ (error' # error /\ error' # "null") =>
          \E s \in TaskIds : FailsUncancelled(s) /\ tasks[s].key = openKey
     /\ \A s \in TaskIds :
          (tasks[s].kind = "modal" /\ tasks[s].pc = "failed"
             /\ tasks'[s] # tasks[s]) =>
            (tasks'[s].pc \in {"images", "open"} /\ tasks'[s].renderedPages = << >>)
     /\ \A s \in TaskIds :
          StartsAttempt(s) => (openKey' # openKey /\ openKey' = tasks'[s].key)]_vars

\* the attempt for the open document has failed: message set, not loading
C22_Witness ==
  \E s \in TaskIds :
    /\ tasks[s].kind = "modal" /\ tasks[s].pc = "failed" /\ ~tasks[s].cancelled
    /\ tasks[s].key = openKey
    /\ error = "Failed to load PDF" /\ ~loading
    /\ \A r \in TaskIds : ~(tasks[r].kind = "modal" /\ Running(tasks[r]))

\* ---------------------------------------------------------------- C25
\* C25: the displayed pages are pages 1, 2, ... of the open document (none
\* when no document is open), in every state.
C25_PagesOfOpenDocument ==
  /\ openKey # 0 => InPageOrder(pages, openKey)
  /\ openKey = 0 => pages = << >>

\* ---------------------------------------------------------------- C28
\* C28: every step that changes the open document leaves the error message
\* empty, served from the cache or not, and the message is only set, while
\* the open document stays the same, by the failure of the attempt for it;
\* so a message shown is the one of the open document.
C28_ErrorClearedOnChange ==
  [][/\ openKey' # openKey => error' = "null"
     /\ error' # "null" =>
          \/ error' = error
          \/ \E s \in TaskIds :
               /\ tasks[s].kind = "modal" /\ ~tasks[s].cancelled
               /\ tasks[s].key = openKey'
               /\ tasks'[s] = [tasks[s] EXCEPT !.pc = "failed", !.pageNum = 0]]_vars

\* the attempt for another document failed, and the open one, served from
\* the cache, shows its pages without a message
C28_Witness ==
  /\ openKey # 0 /\ error = "null" /\ ~loading /\ Len(pages) > 0
  /\ LRUHit(pdfPagesCache, openKey) /\ LRUGetValue(pdfPagesCache, openKey) = pages
  /\ \E s \in TaskIds :
       /\ tasks[s].kind = "modal" /\ tasks[s].pc = "failed" /\ ~tasks[s].cancelled
       /\ tasks[s].key # openKey
  /\ \A s \in TaskIds : tasks[s].kind = "modal" => ~Running(tasks[s])

\* ---------------------------------------------------------------- C26
\* pages 1..numPages[k] of document k, all of them
CompleteFor(q, k) ==
  /\ Len(q) = (IF manifest[k] > 0 THEN manifest[k] ELSE numPages[k])
  /\ InPageOrder(q, k)

\* the step that ends the attempt of the viewer in slot s, not cancelled
EndsUncancelled(s) ==
  /\ tasks[s].kind = "modal" /\ Running(tasks[s]) /\ ~tasks[s].cancelled
  /\ ~Running(tasks'[s]) /\ ~tasks'[s].cancelled

\* C26: an attempt of the viewer or of loadPdf that is running and not
\* cancelled is eventually cancelled or ended; the step that ends an
\* attempt of the viewer that is not cancelled leaves the loading flag
\* clear and either the error message set or every page of the open
\* document displayed.
C26_AttemptEnds ==
  /\ \A s \in TaskIds :
       (DirectOpen(tasks[s]) /\ Running(tasks[s]) /\ ~tasks[s].cancelled)
         ~> (tasks[s].cancelled \/ ~Running(tasks[s]))
  /\ [][\A s \in TaskIds :
          EndsUncancelled(s) =>
            /\ ~loading'
            /\ \/ error' # "null"
               \/ CompleteFor(pages', openKey')]_vars

\* the same for attempts on documents that have a page: this much holds
C26_AttemptWithPagesEnds ==
  /\ \A s \in TaskIds :
       (DirectOpen(tasks[s]) /\ Running(tasks[s]) /\ ~tasks[s].cancelled)
         ~> (tasks[s].cancelled \/ ~Running(tasks[s]))
  /\ [][\A s \in TaskIds :
          (EndsUncancelled(s) /\ numPages[tasks[s].key] > 0) =>
            /\ ~loading'
            /\ \/ error' # "null"
               \/ CompleteFor(pages', openKey')]_vars

\* ---------------------------------------------------------------- C24
\* the prefetch in slot s settles its images, one of them with an error
ImagesSettleWithError(s) ==
  /\ tasks[s].kind = "prefetch" /\ tasks[s].pc = "images"
  /\ tasks'[s].pc # "images" /\ tasks'[s].imageError

\* C24 as stated: a prefetch one of whose page images failed to load has
\* written nothing to the cache.
C24_ImageErrorWritesNothing ==
  \A s \in TaskIds :
    (tasks[s].kind = "prefetch" /\ tasks[s].imageError) => ~tasks[s].wrote

\* C24: on the manifest path of prefetchPdf an image that fails to load is
\* ignored: the step in which the images settle ends the prefetch without a
\* failure and leaves the document in the cache with the url of every page
\* of the manifest entry, in page order.
C24_ImageErrorIgnored ==
  [][\A s \in TaskIds :
       ImagesSettleWithError(s) =>
         /\ tasks'[s].pc = "done" /\ tasks'[s].wrote
         /\ tasks[s].key \notin prefetchingSet'
         /\ LRUHit(pdfPagesCache', tasks[s].key)
         /\ IsImageSequence(LRUGetValue(pdfPagesCache', tasks[s].key),
                            tasks[s].key, manifest[tasks[s].key])]_vars

\* a prefetch ended with an image error and its urls are in the cache
C24_Witness ==
  \E s \in TaskIds :
    /\ tasks[s].kind = "prefetch" /\ tasks[s].pc = "done" /\ tasks[s].imageError
    /\ manifest[tasks[s].key] > 0
    /\ LRUHit(pdfPagesCache, tasks[s].key)
    /\ Len(LRUGetValue(pdfPagesCache, tasks[s].key)) = manifest[tasks[s].key]

\* ---------------------------------------------------------------- C27
\* a prefetchPdf call starts a render in slot s
StartsPrefetch(s) ==
  /\ tasks'[s].kind = "prefetch" /\ Running(tasks'[s])
  /\ ~(tasks[s].kind = "prefetch" /\ Running(tasks[s]))

PrevNeighbour == getAdjacentFile(filteredFiles, openKey, -1)

\* timeout i is the one that prefetches the previous neighbour
ForPrev(i) ==
  /\ PrevNeighbour # 0
  /\ \/ timers[i].key = PrevNeighbour
     \/ timers[i].andThen = PrevNeighbour

\* the prefetches start after the load of the open document has finished
StartAfterLoad ==
  [][\A s \in TaskIds : StartsPrefetch(s) => (openKey # 0 /\ ~loading)]_vars

\* the timeouts of the upcoming documents follow the view, delays growing
UpcomingInViewOrder ==
  \A i, j \in 1..Len(timers) :
    (i < j /\ ~ForPrev(i) /\ ~ForPrev(j)) =>
      /\ timers[i].delay < timers[j].delay
      /\ FirstPosition(filteredFiles, openKey) < FirstPosition(filteredFiles, timers[i].key)
      /\ FirstPosition(filteredFiles, timers[i].key)
           < FirstPosition(filteredFiles, timers[j].key)

\* once the open document, which has a previous neighbour, is loaded, a
\* timeout prefetches that neighbour, due after those of the next ones
PrevScheduledLast ==
  [][((openKey' # openKey \/ loading' # loading)
        /\ openKey' # 0 /\ ~loading' /\ PrevNeighbour' # 0) =>
       \E i \in 1..Len(timers') :
         /\ ForPrev(i)'
         /\ \A j \in 1..Len(timers') :
              j # i => timers'[j].delay < timers'[i].delay]_vars

\* C23: prefetches of neighbours start only when the open document has
\* finished loading; the timeouts of the upcoming documents are in view
\* order with growing delays; the previous neighbour is prefetched too, by
\* a timeout due after those of the next neighbours.
C23_NeighboursAfterLoad ==
  /\ StartAfterLoad
  /\ [](UpcomingInViewOrder)
  /\ PrevScheduledLast

\* the first two parts of C23: these hold for the three viewers
C23_UpcomingAfterLoad ==
  /\ StartAfterLoad
  /\ [](UpcomingInViewOrder)

\* ---------------------------------------------------------------- C29
\* no two entries of the list have the same key
NoKeyTwice(files) ==
  \A i, j \in 1..Len(files) : files[i].key = files[j].key => i = j

\* the list q starts with the list p
StartsWith(q, p) == Len(p) <= Len(q) /\ SubSeq(q, 1, Len(p)) = p

\* C29: from the reset state on, the files list never holds two entries
\* with the same key, and every call of appendToFilesCache leaves the
\* entries already present where they were.
C29_DedupedByKey ==
  /\ [](NoKeyTwice(filesCache.files))
  /\ [][filesCache'.files # << >> =>
          StartsWith(filesCache'.files, filesCache.files)]_vars

\* the second part of C29: this much holds
C29_EntriesKeepPosition ==
  [][filesCache'.files # << >> =>
       StartsWith(filesCache'.files, filesCache.files)]_vars

\* a key absent from the list is in the list once for each of its entries
\* in the batch; a key present is not added
C29_DedupedAgainstList ==
  [][\A k \in LruKeys :
       LET count(q) == Cardinality({i \in 1..Len(q) : q[i].key = k})
       IN (filesCache'.files # << >> /\ count(filesCache.files) > 0) =>
            count(filesCache'.files) = count(filesCache.files)]_vars

\* ---------------------------------------------------------------- C30
\* the entries of the cache after its first n
DropFirst(cache, n) == SubSeq(cache, n + 1, Len(cache))

\* C30: the preview map never holds more than MAX_CACHED entries, and a
\* call that stores into a map of MAX_CACHED entries or more leaves it
\* without its 100 oldest entries, the others in place, followed by the
\* entry of the call when its key was not among them.
C30_PreviewsBounded ==
  /\ [](Len(previewCache) <= MAX_CACHED)
  /\ [][(Len(previewCache) >= MAX_CACHED /\ previewCache' # previewCache) =>
          LET rest == DropFirst(previewCache, 100)
          IN \/ previewCache' = rest
             \/ /\ Len(previewCache') = Len(rest) + 1
                /\ SubSeq(previewCache', 1, Len(rest)) = rest
                /\ ~MapHas(rest, previewCache'[Len(previewCache')].key)]_vars

\* the map was full and a call has removed the 100 oldest entries
C30_Witness ==
  /\ Len(previewCache) = MAX_CACHED - 100 + 1
  /\ previewCache[1].key = 101
  /\ previewCache[Len(previewCache)].key = MAX_CACHED + 1

====
